---------------------------- MODULE Spec2Model ----------------------------
(***************************************************************************)
(* A model of the data pipeline of cotwit19 (src/src/index.ts, the later   *)
(* iteration of the program, lines 387-867): fetchData downloads a zip     *)
(* archive, turns three recognised entries into timelines (toCSV, orZero,  *)
(* parseTime), aligns them to a common date window and resolves a Dataset  *)
(* that main hands to draw.                                                *)
(*                                                                         *)
(* Texts are sequences of one-character strings.  A JavaScript value is a  *)
(* record [t, n, s]: t is the type tag, n the number, s the text.  A Date  *)
(* is its time value, counted in days since 1 January 1970 (parseTime      *)
(* yields local midnight, so whole days are exact; the clock is read to    *)
(* the same unit).                                                         *)
(***************************************************************************)
EXTENDS Integers, Sequences, FiniteSets, TLC

(***************************************************************************)
(* JavaScript values                                                       *)
(***************************************************************************)
Num(k) == [t |-> "number", n |-> k, s |-> <<>>]
NaN == [t |-> "NaN", n |-> 0, s |-> <<>>]
Undefined == [t |-> "undefined", n |-> 0, s |-> <<>>]
Str(text) == [t |-> "string", n |-> 0, s |-> text]

\* a + b on numbers: anything but two finite numbers gives NaN
\* (x + undefined and x + NaN are both NaN).
JsAdd(a, b) == IF a.t = "number" /\ b.t = "number" THEN Num(a.n + b.n) ELSE NaN

(***************************************************************************)
(* String.prototype.trim and String.prototype.split with a one-character   *)
(* separator.                                                              *)
(***************************************************************************)
IsSpace(c) == c \in {" ", "\n", "\t", "\r"}

RECURSIVE TrimStart(_)
TrimStart(s) ==
  IF s # <<>> /\ IsSpace(Head(s)) THEN TrimStart(Tail(s)) ELSE s

RECURSIVE TrimEnd(_)
TrimEnd(s) ==
  IF s # <<>> /\ IsSpace(s[Len(s)]) THEN TrimEnd(SubSeq(s, 1, Len(s) - 1)) ELSE s

Trim(s) == TrimEnd(TrimStart(s))

\* split always returns at least one piece: "".split(";") is [""].
Split(s, sep) ==
  LET RECURSIVE go(_, _, _)
      go(i, cur, acc) ==
        IF i > Len(s) THEN Append(acc, cur)
        ELSE IF s[i] = sep THEN go(i + 1, <<>>, Append(acc, cur))
        ELSE go(i + 1, Append(cur, s[i]), acc)
  IN go(1, <<>>, <<>>)

(***************************************************************************)
(* Number(text), for texts over digits, signs, blanks and other marks.     *)
(* The empty (or blank) text is 0, an optionally signed run of digits is   *)
(* that integer, anything else is NaN.  Fractions, exponents, radix        *)
(* prefixes and "Infinity" are outside the value alphabet of the model.    *)
(***************************************************************************)
IsDigit(c) == c \in {"0", "1", "2", "3", "4", "5", "6", "7", "8", "9"}

DigitVal(c) ==
  CASE c = "0" -> 0 [] c = "1" -> 1 [] c = "2" -> 2 [] c = "3" -> 3
    [] c = "4" -> 4 [] c = "5" -> 5 [] c = "6" -> 6 [] c = "7" -> 7
    [] c = "8" -> 8 [] c = "9" -> 9

AllDigits(s) == s # <<>> /\ \A i \in 1..Len(s) : IsDigit(s[i])

RECURSIVE DigitsVal(_)
DigitsVal(s) ==
  IF s = <<>> THEN 0
  ELSE 10 * DigitsVal(SubSeq(s, 1, Len(s) - 1)) + DigitVal(s[Len(s)])

StringToNumber(text) ==
  LET s == Trim(text)
  IN IF s = <<>> THEN Num(0)
     ELSE IF AllDigits(s) THEN Num(DigitsVal(s))
     ELSE IF Head(s) = "-" /\ AllDigits(Tail(s)) THEN Num(0 - DigitsVal(Tail(s)))
     ELSE IF Head(s) = "+" /\ AllDigits(Tail(s)) THEN Num(DigitsVal(Tail(s)))
     ELSE NaN

\* orZero without the NaN test
orZeroKeepsNaN(value) ==
  IF value.t = "string" THEN StringToNumber(value.s) ELSE value

\* orZero that also replaces a negative number by 0
orZeroZeroesNegative(value) ==
  LET v == IF value.t = "string" THEN StringToNumber(value.s) ELSE value
  IN IF v.t = "NaN" \/ (v.t = "number" /\ v.n < 0) THEN Num(0) ELSE v

\* orZero: a string is converted with Number; NaN becomes 0; every other
\* value (undefined included: Number.isNaN(undefined) is false) is returned
\* as it is.
orZero(value) ==
  LET v == IF value.t = "string" THEN StringToNumber(value.s) ELSE value
  IN IF v.t = "NaN" THEN Num(0) ELSE v

(***************************************************************************)
(* d3.timeParse("%d.%m.%Y"): a day of at most two digits, ".", a month of  *)
(* at most two digits, ".", a year of at most four digits, and nothing     *)
(* after it; null otherwise.  The fields go to new Date(y, m - 1, d), which*)
(* carries months and days that overflow.                                  *)
(***************************************************************************)
Min2(a, b) == IF a < b THEN a ELSE b
Max2(a, b) == IF a > b THEN a ELSE b

\* /^\s*\d+/ on text.slice(i, i + w), i counted from 1.
NumberRe(text, i, w) ==
  LET win == SubSeq(text, i, Min2(i + w - 1, Len(text)))
      RECURSIVE spaces(_)
      spaces(k) == IF k <= Len(win) /\ IsSpace(win[k]) THEN spaces(k + 1) ELSE k
      RECURSIVE digits(_)
      digits(k) == IF k <= Len(win) /\ IsDigit(win[k]) THEN digits(k + 1) ELSE k
      a == spaces(1)
      b == digits(a)
  IN [ok |-> b > a, val |-> DigitsVal(SubSeq(win, a, b - 1)), next |-> i + b - 1]

\* Days from 1 January 1970 to the local midnight of new Date(y, m - 1, d).
DaysFromCivil(y, m, d) ==
  LET months == y * 12 + (m - 1)
      yy == months \div 12
      mm == (months % 12) + 1
      y1 == IF mm <= 2 THEN yy - 1 ELSE yy
      era == y1 \div 400
      yoe == y1 - era * 400
      mp == (mm + 9) % 12
      doy == (153 * mp + 2) \div 5 + (d - 1)
      doe == yoe * 365 + yoe \div 4 - yoe \div 100 + doy
  IN era * 146097 + doe - 719468

Null == [t |-> "null", n |-> 0, s |-> <<>>]
DateOf(k) == [t |-> "Date", n |-> k, s |-> <<>>]

parseTime(text) ==
  LET d == NumberRe(text, 1, 2)
      dot1 == d.ok /\ d.next <= Len(text) /\ text[d.next] = "."
      m == NumberRe(text, d.next + 1, 2)
      dot2 == m.ok /\ m.next <= Len(text) /\ text[m.next] = "."
      y == NumberRe(text, m.next + 1, 4)
  IN IF dot1 /\ dot2 /\ y.ok /\ y.next = Len(text) + 1
     THEN DateOf(DaysFromCivil(y.val, m.val, d.val))
     ELSE Null

(***************************************************************************)
(* Arrays: slice, reverse, findIndex (indices from 0, as in the source).   *)
(***************************************************************************)
\* Array.prototype.slice(start, end): a negative index counts from the end,
\* both are clamped to the array.
Slice(arr, start, end) ==
  LET len == Len(arr)
      from == IF start < 0 THEN Max2(len + start, 0) ELSE Min2(start, len)
      to == IF end < 0 THEN Max2(len + end, 0) ELSE Min2(end, len)
  IN SubSeq(arr, from + 1, to)

Reverse(arr) == [i \in 1..Len(arr) |-> arr[Len(arr) + 1 - i]]

\* findIndex: the index of the first element whose test holds, or -1;
\* hits[i] is the outcome of the callback on element i.
FindIndex(hits) ==
  IF \E i \in 1..Len(hits) : hits[i]
  THEN (CHOOSE i \in 1..Len(hits) : hits[i] /\ \A j \in 1..(i - 1) : ~hits[j]) - 1
  ELSE -1

(***************************************************************************)
(* toCSV: what one 'data' event appends to csvData.                        *)
(***************************************************************************)
ChunkRows(chunk) ==
  LET rows == Split(Trim(chunk), "\n")
  IN [i \in 1..Len(rows) |->
        LET cells == Split(Trim(rows[i]), ";")
        IN [j \in 1..Len(cells) |-> Trim(cells[j])]]

(***************************************************************************)
(* The series builders of the 'entry' handler.  A row is destructured as   *)
(* [date, value]: a cell the row does not have is undefined.               *)
(***************************************************************************)
Cell(row, j) == IF j <= Len(row) THEN Str(row[j]) ELSE Undefined

\* parseTime(date) ?? new Date(0)
DateOrEpoch(date) ==
  LET parsed == parseTime(date.s) IN IF parsed.t = "null" THEN 0 ELSE parsed.n

\* recovered, deaths: csv.slice(1).map(([date, value]) => [..., orZero(value)])
BuildPlain(csv) ==
  LET rows == Slice(csv, 1, Len(csv))
  IN [i \in 1..Len(rows) |->
        [date |-> DateOrEpoch(Cell(rows[i], 1)), value |-> orZero(Cell(rows[i], 2))]]

\* the cases builder without the running sum
BuildCasesNoSum(csv) == BuildPlain(csv)

\* cases: csv.slice(1).reduce(([timeline, sum], [date, value]) => ..., [[], 0])[0]
RECURSIVE CasesReduce(_, _, _)
CasesReduce(rows, timeline, sum) ==
  IF rows = <<>> THEN timeline
  ELSE LET next == JsAdd(sum, orZero(Cell(Head(rows), 2)))
       IN CasesReduce(Tail(rows),
                      Append(timeline, [date |-> DateOrEpoch(Cell(Head(rows), 1)),
                                        value |-> next]),
                      next)

BuildCases(csv) == CasesReduce(Slice(csv, 1, Len(csv)), <<>>, Num(0))

\* BuildTimeline without csv.slice(1): the header row is built like a data row
BuildTimelineKeepsHeader(key, csv) ==
  IF key = "cases" THEN CasesReduce(csv, <<>>, Num(0))
  ELSE BuildPlain(<<<<>>>> \o csv)

BuildTimeline(key, csv) == IF key = "cases" THEN BuildCases(csv) ELSE BuildPlain(csv)

(***************************************************************************)
(* The alignment of the zip 'end' handler.  csvs is the sequence of        *)
(* [key, timeline] pairs that Promise.all delivers, in the order of result.*)
(***************************************************************************)
RECURSIVE MaxOf(_)
MaxOf(xs) == IF Len(xs) = 1 THEN xs[1] ELSE Max2(Head(xs), MaxOf(Tail(xs)))

\* Math.max(...csvs.map(([, timeline]) => timeline[0][0].getTime()))
FirstDate(csvs) == MaxOf([i \in 1..Len(csvs) |-> csvs[i].timeline[1].date])

\* csvs.reduce((date, [, timeline]) => last < date ? last : date, new Date())
RECURSIVE LastDateReduce(_, _)
LastDateReduce(csvs, date) ==
  IF csvs = <<>> THEN date
  ELSE LET timeline == Head(csvs).timeline
           last == timeline[Len(timeline)].date
       IN LastDateReduce(Tail(csvs), IF last < date THEN last ELSE date)

LastDate(csvs, clock) == LastDateReduce(csvs, clock)

\* Array.prototype.reverse works in place on the array it is called on and
\* returns that array.  A scan is [receiver, reversed]: what the array
\* timeline holds after the expression, and the array the expression gives.
\* timeline.reverse(), without the copy:
ReverseScanInPlace(timeline) ==
  [receiver |-> Reverse(timeline), reversed |-> Reverse(timeline)]

\* timeline.slice(0).reverse(): the array that is reversed is the copy.
ReverseScan(timeline) ==
  LET copy == Slice(timeline, 0, Len(timeline))
  IN [receiver |-> timeline, reversed |-> Reverse(copy)]

AlignTimeline(timeline, first, last) ==
  LET firstIndex ==
        FindIndex([i \in 1..Len(timeline) |-> timeline[i].date >= first])
      scan == ReverseScan(timeline)
      reversed == scan.reversed
      reverseLastIndex ==
        FindIndex([i \in 1..Len(reversed) |-> reversed[i].date <= last])
      lastIndex == Len(timeline) - 1 - reverseLastIndex
  IN Slice(scan.receiver, firstIndex, lastIndex + 1)

\* What the array timeline holds once the reduce callback has run on it.
AfterAlign(timeline) == ReverseScan(timeline).receiver

\* csvs.reduce((acc, [key, timeline]) => { acc[key] = ...; return acc }, {}):
\* a key that occurs twice keeps the timeline of its last occurrence.
AlignAll(csvs, first, last) ==
  LET keys == {csvs[i].key : i \in 1..Len(csvs)}
      LastWith(k) == CHOOSE i \in 1..Len(csvs) :
                       csvs[i].key = k /\ \A j \in (i + 1)..Len(csvs) : csvs[j].key # k
  IN [k \in keys |-> AlignTimeline(csvs[LastWith(k)].timeline, first, last)]

\* timeline[0][0] and timeline[timeline.length - 1][0] throw a TypeError on
\* an empty timeline.
AlignThrows(csvs) == \E i \in 1..Len(csvs) : csvs[i].timeline = <<>>

(***************************************************************************)
(* draw, as far as its checks of the Dataset go; past them it renders.     *)
(* d3.extent skips values that are not numbers.                            *)
(***************************************************************************)
Keys == {"cases", "recovered", "deaths"}

draw(d) ==
  IF "cases" \notin DOMAIN d \/ "recovered" \notin DOMAIN d THEN "TypeError"
  ELSE IF Len(d["cases"]) # Len(d["recovered"]) THEN "lengths unequal"
  ELSE IF "deaths" \notin DOMAIN d THEN "TypeError"
  ELSE IF Len(d["cases"]) # Len(d["deaths"]) THEN "lengths unequal"
  ELSE IF d["cases"] = <<>> THEN "date error"
  ELSE IF \A i \in 1..Len(d["cases"]) : d["cases"][i].value.t # "number"
       THEN "value error"
  ELSE "rendering"

(***************************************************************************)
(* The archive the download delivers: the bounded inputs of the model.     *)
(* An entry is [fileName, chunks]: fileName is the set of the markers that *)
(* occur in the entry's name (all that indexOf looks at), chunks are the   *)
(* texts its read stream delivers, one per 'data' event.  Days are days of *)
(* April 2020.                                                             *)
(***************************************************************************)
MaxDay == 3
MaxEntries == 3
MaxRows == 2
MaxFew == 4
MaxCell == 2
MaxChunks == 2

Digits == <<"0", "1", "2", "3", "4", "5", "6", "7", "8", "9">>
TwoDigits(k) == <<Digits[(k \div 10) + 1], Digits[(k % 10) + 1]>>
DateText(day) == TwoDigits(day) \o <<".", "0", "4", ".", "2", "0", "2", "0">>
DayTime(day) == DaysFromCivil(2020, 4, day)

HeaderText == <<"t", ";", "n">>

\* One line per day from first to last: "dd.04.2020;value", after the header.
RECURSIVE DailyLines(_, _, _)
DailyLines(first, last, values) ==
  IF first > last THEN <<>>
  ELSE <<"\n">> \o DateText(first) \o <<";">> \o Head(values)
       \o DailyLines(first + 1, last, Tail(values))

DailyFile(first, last, values) ==
  HeaderText \o DailyLines(first, last, values) \o <<"\n">>

Ones(k) == [i \in 1..k |-> <<"1">>]

Entry(fileName, text) == [fileName |-> fileName, chunks |-> <<text>>]

\* The instants at which the run may read the clock.
Clock == {DayTime(day) : day \in 0..(MaxDay + 1)}

(***************************************************************************)
(* State                                                                   *)
(***************************************************************************)
VARIABLES
  archive,    \* the archive that was downloaded (never changes)
  zip,        \* "fetching", "opening", "open", "ended", "failed"
  entriesRead, \* how many entries the zipfile has emitted
  result,     \* result: one promise per recognised entry, with its stream
  endPc,      \* the async 'end' handler: "idle", "await", "returned", "threw"
  promise,    \* the promise fetchData returns: "pending", "resolved", "rejected"
  data,       \* the Dataset it was resolved with
  firstDate,  \* locals of the 'end' handler
  lastDate,
  now,        \* the value of new Date() it read
  closed,     \* zipfile.close() was called
  mainPc      \* main: "await fetchData", "rejected", or the outcome of draw

vars == <<archive, zip, entriesRead, result, endPc, promise, data, firstDate,
          lastDate, now, closed, mainPc>>

\* resolve and reject act on a pending promise only.
Settle(outcome) == IF promise = "pending" THEN outcome ELSE promise

InitWith(entries) ==
  /\ archive = entries
  /\ zip = "fetching"
  /\ entriesRead = 0
  /\ result = <<>>
  /\ endPc = "idle"
  /\ promise = "pending"
  /\ data = <<>>
  /\ firstDate = 0
  /\ lastDate = 0
  /\ now = 0
  /\ closed = FALSE
  /\ mainPc = "await fetchData"

(***************************************************************************)
(* fetchData up to the zipfile                                             *)
(***************************************************************************)
\* await fetch(CSVURL); await csvzip.buffer()
FetchDone ==
  /\ zip = "fetching"
  /\ zip' = "opening"
  /\ UNCHANGED <<archive, entriesRead, result, endPc, promise, data,
                 firstDate, lastDate, now, closed, mainPc>>

FetchFails ==
  /\ zip = "fetching"
  /\ zip' = "failed"
  /\ promise' = "rejected"
  /\ UNCHANGED <<archive, entriesRead, result, endPc, data, firstDate,
                 lastDate, now, closed, mainPc>>

\* the callback of yauzl.fromBuffer
FromBufferOk ==
  /\ zip = "opening"
  /\ zip' = "open"
  /\ UNCHANGED <<archive, entriesRead, result, endPc, promise, data,
                 firstDate, lastDate, now, closed, mainPc>>

\* err, or no zipfile
FromBufferFails ==
  /\ zip = "opening"
  /\ zip' = "failed"
  /\ promise' = Settle("rejected")
  /\ UNCHANGED <<archive, entriesRead, result, endPc, data, firstDate,
                 lastDate, now, closed, mainPc>>

\* zipfile.on("error", reject): the zipfile emits no entry and no end after it
ZipfileError ==
  /\ zip = "open"
  /\ zip' = "failed"
  /\ promise' = Settle("rejected")
  /\ UNCHANGED <<archive, entriesRead, result, endPc, data, firstDate,
                 lastDate, now, closed, mainPc>>

(***************************************************************************)
(* zipfile.on("entry"): a recognised entry pushes toCSV(...).then(build)   *)
(* onto result; toCSV calls zipfile.openReadStream at once.                *)
(***************************************************************************)
KeyOf(fileName) ==
  IF "Epikurve" \in fileName THEN "cases"
  ELSE IF "GenesenTimeline" \in fileName THEN "recovered"
  ELSE IF "TodesfaelleTimeline" \in fileName THEN "deaths"
  ELSE "null"

OnEntry ==
  /\ zip = "open"
  /\ entriesRead < Len(archive)
  /\ entriesRead' = entriesRead + 1
  /\ LET entry == archive[entriesRead + 1]
         key == KeyOf(entry.fileName)
     IN result' = IF key # "null"
                  THEN Append(result, [key |-> key, state |-> "opening",
                                       chunks |-> entry.chunks, csvData |-> <<>>,
                                       timeline |-> <<>>])
                  ELSE result
  /\ UNCHANGED <<archive, zip, endPc, promise, data, firstDate, lastDate, now,
                 closed, mainPc>>

(***************************************************************************)
(* toCSV: the callback of openReadStream and the events of the read stream.*)
(***************************************************************************)
OpenReadStreamErr(i) ==
  /\ result[i].state = "opening"
  /\ result' = [result EXCEPT ![i].state = "rejected"]
  /\ UNCHANGED <<archive, zip, entriesRead, endPc, promise, data, firstDate,
                 lastDate, now, closed, mainPc>>

OpenReadStreamNull(i) ==
  /\ result[i].state = "opening"
  /\ result' = [result EXCEPT ![i].state = "rejected"]
  /\ UNCHANGED <<archive, zip, entriesRead, endPc, promise, data, firstDate,
                 lastDate, now, closed, mainPc>>

OpenReadStreamOk(i) ==
  /\ result[i].state = "opening"
  /\ result' = [result EXCEPT ![i].state = "reading"]
  /\ UNCHANGED <<archive, zip, entriesRead, endPc, promise, data, firstDate,
                 lastDate, now, closed, mainPc>>

\* readStream.on("data")
OnData(i) ==
  /\ result[i].state = "reading"
  /\ result[i].chunks # <<>>
  /\ result' = [result EXCEPT
                  ![i].csvData = @ \o ChunkRows(Head(result[i].chunks)),
                  ![i].chunks = Tail(@)]
  /\ UNCHANGED <<archive, zip, entriesRead, endPc, promise, data, firstDate,
                 lastDate, now, closed, mainPc>>

\* readStream.on("end"): resolve(csvData); the then-callback of the 'entry'
\* handler runs as a microtask of the same event and builds the timeline.
OnStreamEnd(i) ==
  /\ result[i].state = "reading"
  /\ result[i].chunks = <<>>
  /\ result' = [result EXCEPT
                  ![i].state = "fulfilled",
                  ![i].timeline = BuildTimeline(result[i].key, result[i].csvData)]
  /\ UNCHANGED <<archive, zip, entriesRead, endPc, promise, data, firstDate,
                 lastDate, now, closed, mainPc>>

\* readStream.on("error")
OnStreamError(i) ==
  /\ result[i].state = "reading"
  /\ result' = [result EXCEPT ![i].state = "rejected"]
  /\ UNCHANGED <<archive, zip, entriesRead, endPc, promise, data, firstDate,
                 lastDate, now, closed, mainPc>>

(***************************************************************************)
(* zipfile.on("end", async () => ...)                                      *)
(***************************************************************************)
\* OnEnd with the test result.length <= 3
OnEndAtMostThree ==
  /\ zip = "open"
  /\ entriesRead = Len(archive)
  /\ zip' = "ended"
  /\ IF Len(result) <= 3
     THEN /\ endPc' = "await"
          /\ UNCHANGED <<promise, closed>>
     ELSE /\ promise' = Settle("rejected")
          /\ closed' = TRUE
          /\ endPc' = "returned"
  /\ UNCHANGED <<archive, entriesRead, result, data, firstDate, lastDate, now,
                 mainPc>>

\* up to the await, or through the else branch
OnEnd ==
  /\ zip = "open"
  /\ entriesRead = Len(archive)
  /\ zip' = "ended"
  /\ IF Len(result) = 3
     THEN /\ endPc' = "await"
          /\ UNCHANGED <<archive, promise, closed>>
     ELSE /\ promise' = Settle("rejected")
          /\ closed' = TRUE
          /\ endPc' = "returned"
  /\ UNCHANGED <<archive, entriesRead, result, data, firstDate, lastDate, now,
                 mainPc>>

\* Promise.all(result) rejects with the first rejection: the await throws
\* inside the async handler, whose own promise nobody looks at.
AwaitThrows ==
  /\ endPc = "await"
  /\ \E i \in 1..Len(result) : result[i].state = "rejected"
  /\ endPc' = "threw"
  /\ UNCHANGED <<archive, zip, entriesRead, result, promise, data, firstDate,
                 lastDate, now, closed, mainPc>>

\* Promise.all(result) is fulfilled: the handler runs to its end.
AwaitResumes ==
  /\ endPc = "await"
  /\ \A i \in 1..Len(result) : result[i].state = "fulfilled"
  /\ LET csvs == [i \in 1..Len(result) |->
                    [key |-> result[i].key, timeline |-> result[i].timeline]]
     IN IF AlignThrows(csvs)
        THEN /\ endPc' = "threw"
             /\ UNCHANGED <<result, promise, data, firstDate, lastDate, now,
                            closed>>
        ELSE \E clock \in Clock :
             /\ now' = clock
             /\ firstDate' = FirstDate(csvs)
             /\ lastDate' = LastDate(csvs, clock)
             /\ data' = AlignAll(csvs, FirstDate(csvs), LastDate(csvs, clock))
             /\ result' = [i \in 1..Len(result) |->
                             [result[i] EXCEPT !.timeline = AfterAlign(@)]]
             /\ promise' = Settle("resolved")
             /\ closed' = TRUE
             /\ endPc' = "returned"
  /\ UNCHANGED <<archive, zip, entriesRead, mainPc>>

(***************************************************************************)
(* main: const data = await fetchData(); const png = await draw(data)      *)
(***************************************************************************)
MainDraws ==
  /\ mainPc = "await fetchData"
  /\ promise = "resolved"
  /\ mainPc' = draw(data)
  /\ UNCHANGED <<archive, zip, entriesRead, result, endPc, promise, data,
                 firstDate, lastDate, now, closed>>

MainRejected ==
  /\ mainPc = "await fetchData"
  /\ promise = "rejected"
  /\ mainPc' = "rejected"
  /\ UNCHANGED <<archive, zip, entriesRead, result, endPc, promise, data,
                 firstDate, lastDate, now, closed>>

Next ==
  \/ FetchDone
  \/ FetchFails
  \/ FromBufferOk
  \/ FromBufferFails
  \/ ZipfileError
  \/ OnEntry
  \/ \E i \in 1..Len(result) : OpenReadStreamErr(i)
  \/ \E i \in 1..Len(result) : OpenReadStreamNull(i)
  \/ \E i \in 1..Len(result) : OpenReadStreamOk(i)
  \/ \E i \in 1..Len(result) : OnData(i)
  \/ \E i \in 1..Len(result) : OnStreamEnd(i)
  \/ \E i \in 1..Len(result) : OnStreamError(i)
  \/ OnEnd
  \/ AwaitThrows
  \/ AwaitResumes
  \/ MainDraws
  \/ MainRejected

(***************************************************************************)
(* Specifications: the same program on four families of archives.          *)
(***************************************************************************)
FileNames ==
  {{}, {"Epikurve"}, {"GenesenTimeline"}, {"TodesfaelleTimeline"},
   {"Epikurve", "GenesenTimeline"}, {"GenesenTimeline", "TodesfaelleTimeline"}}

\* Any archive of at most MaxEntries entries, each with the same two days.
NamedEntries == {Entry(f, DailyFile(1, 2, Ones(2))) : f \in FileNames}

Archives == UNION {[1..k -> NamedEntries] : k \in 0..MaxEntries}

Init == \E entries \in Archives : InitWith(entries)

Spec == Init /\ [][Next]_vars

\* Three recognised entries, cases, recovered and deaths, each with one line
\* per day of its own range of days.
Ranges == {r \in (1..MaxDay) \X (1..MaxDay) : r[1] <= r[2]}

RangeFile(r) == DailyFile(r[1], r[2], Ones(r[2] - r[1] + 1))

InitAlign ==
  \E c \in Ranges, r \in Ranges, d \in Ranges :
    InitWith(<<Entry({"Epikurve"}, RangeFile(c)),
               Entry({"GenesenTimeline"}, RangeFile(r)),
               Entry({"TodesfaelleTimeline"}, RangeFile(d))>>)

SpecAlign == InitAlign /\ [][Next]_vars

\* Three recognised entries over the same days, with every choice of what
\* follows the date on each line: a value cell (a number, a negative number,
\* a marker, nothing) or no second cell at all.
LineTails ==
  {<<";", "5">>, <<";", "-", "3">>, <<";", "<", "5">>, <<";">>, <<>>}

RECURSIVE TailLines(_, _)
TailLines(day, tails) ==
  IF tails = <<>> THEN <<>>
  ELSE <<"\n">> \o DateText(day) \o Head(tails) \o TailLines(day + 1, Tail(tails))

TailFile(tails) == HeaderText \o TailLines(1, tails) \o <<"\n">>

Fixture == <<<<";", "5">>, <<";", "3">>, <<";", "0">>, <<";", "7">>>>

Columns == UNION {[1..k -> LineTails] : k \in 1..MaxRows} \cup {Fixture}

InitBuild ==
  \E tails \in Columns :
    InitWith(<<Entry({"Epikurve"}, TailFile(tails)),
               Entry({"GenesenTimeline"}, TailFile(tails)),
               Entry({"TodesfaelleTimeline"}, TailFile(tails))>>)

SpecBuild == InitBuild /\ [][Next]_vars

\* The archives of at most MaxFew entries that hold fewer than three
\* recognised entries, and one complete archive beside them.
FewArchives ==
  {a \in UNION {[1..k -> NamedEntries] : k \in 0..MaxFew} :
     Cardinality({i \in 1..Len(a) : KeyOf(a[i].fileName) # "null"}) < 3}

CompleteArchive ==
  <<Entry({"Epikurve"}, DailyFile(1, 2, Ones(2))),
    Entry({"GenesenTimeline"}, DailyFile(1, 2, Ones(2))),
    Entry({"TodesfaelleTimeline"}, DailyFile(1, 2, Ones(2)))>>

InitFew == \E entries \in FewArchives \cup {CompleteArchive} : InitWith(entries)

SpecFew == InitFew /\ [][Next]_vars

\* Three recognised entries over the same days 1..MaxDay, one of them with a
\* date cell that parseTime cannot read on one of its lines (bad = 0: none).
BadDateText == <<"n", "/", "a">>

RECURSIVE DatedLines(_, _, _)
DatedLines(first, last, bad) ==
  IF first > last THEN <<>>
  ELSE <<"\n">> \o (IF first = bad THEN BadDateText ELSE DateText(first))
       \o <<";", "1">> \o DatedLines(first + 1, last, bad)

DatedFile(bad) == HeaderText \o DatedLines(1, MaxDay, bad) \o <<"\n">>

InitDates ==
  \E series \in 1..3, bad \in 0..MaxDay :
    InitWith(<<Entry({"Epikurve"}, DatedFile(IF series = 1 THEN bad ELSE 0)),
               Entry({"GenesenTimeline"}, DatedFile(IF series = 2 THEN bad ELSE 0)),
               Entry({"TodesfaelleTimeline"},
                     DatedFile(IF series = 3 THEN bad ELSE 0))>>)

SpecDates == InitDates /\ [][Next]_vars

\* Three recognised entries of one data row each, with the same value cell:
\* any text of at most MaxCell characters over digits, "-" and "<".
CellChars == {"1", "2", "3", "5", "-", "<"}

CellTexts == UNION {[1..k -> CellChars] : k \in 0..MaxCell}

CellFile(text) ==
  HeaderText \o <<"\n">> \o DateText(1) \o <<";">> \o text \o <<"\n">>

InitCell ==
  \E text \in CellTexts :
    InitWith(<<Entry({"Epikurve"}, CellFile(text)),
               Entry({"GenesenTimeline"}, CellFile(text)),
               Entry({"TodesfaelleTimeline"}, CellFile(text))>>)

SpecCell == InitCell /\ [][Next]_vars

\* Three recognised entries; the read stream of the first delivers its
\* content in any way as at most MaxChunks 'data' events, none of them empty.
\* The content is a header and two lines, or the header alone; an entry
\* without content ends without a 'data' event.
HeaderOnly == HeaderText \o <<"\n">>

TwoLines ==
  HeaderText
    \o <<"\n", "1", ".", "4", ".", "2", "0", "2", "0", ";", "5">>
    \o <<"\n", "2", ".", "4", ".", "2", "0", "2", "0", ";", "3", "\n">>

RECURSIVE SplitsInto(_, _)
SplitsInto(text, k) ==
  IF k = 1 THEN (IF text = <<>> THEN {} ELSE {<<text>>})
  ELSE UNION {{<<SubSeq(text, 1, c)>> \o rest :
                 rest \in SplitsInto(SubSeq(text, c + 1, Len(text)), k - 1)} :
              c \in 1..(Len(text) - 1)}

Deliveries ==
  {<<>>} \cup UNION {SplitsInto(text, k) :
                       text \in {HeaderOnly, TwoLines}, k \in 1..MaxChunks}

InitChunks ==
  \E chunks \in Deliveries :
    InitWith(<<[fileName |-> {"Epikurve"}, chunks |-> chunks],
               Entry({"GenesenTimeline"}, DailyFile(1, 2, Ones(2))),
               Entry({"TodesfaelleTimeline"}, DailyFile(1, 2, Ones(2)))>>)

SpecChunks == InitChunks /\ [][Next]_vars

(***************************************************************************)
(* What the properties speak of                                            *)
(***************************************************************************)
Markers == {"Epikurve", "GenesenTimeline", "TodesfaelleTimeline"}

\* The entries of the archive whose name contains one of the three markers.
Recognised == {i \in 1..Len(archive) : archive[i].fileName \cap Markers # {}}

DrawOutcomes ==
  {"TypeError", "lengths unequal", "date error", "value error", "rendering"}

NoDataset == promise # "resolved" /\ DOMAIN data = {} /\ mainPc \notin DrawOutcomes

SeriesFailed == \E i \in 1..Len(result) : result[i].state = "rejected"

\* The 'end' handler has run as far as it ever will.
EndHandlerOver == zip = "ended" /\ endPc \in {"returned", "threw"}

(***************************************************************************)
(* C4: if one of the three recognised series fails while it is read, then  *)
(* after the zip 'end' event the promise of fetchData is rejected, and it  *)
(* is never resolved, so main never calls draw.  Stated on the handler's   *)
(* end: once the 'end' handler is over with a failed series among the      *)
(* three, the promise is rejected and no Dataset was handed out.           *)
(***************************************************************************)
C4_FailedSeriesRejects ==
  (Len(result) = 3 /\ SeriesFailed /\ EndHandlerOver)
    => (promise = "rejected" /\ NoDataset)

(***************************************************************************)
(* C5: an archive with fewer than three recognised entries makes fetchData *)
(* reject its promise at the zip 'end' event, and no Dataset is produced.  *)
(***************************************************************************)
C5_TooFewEntriesReject ==
  (zip = "ended" /\ Cardinality(Recognised) < 3)
    => (promise = "rejected" /\ endPc = "returned" /\ NoDataset)

C5_Witness ==
  /\ zip = "ended"
  /\ Len(archive) = 3
  /\ Cardinality(Recognised) = 2
  /\ promise = "rejected"
  /\ mainPc = "rejected"

(***************************************************************************)
(* C6: whenever fetchData resolves, the Dataset holds a timeline under     *)
(* each of the keys cases, recovered and deaths, whatever the names of the *)
(* archive's entries are.                                                  *)
(***************************************************************************)
C6_ResolvedHasAllKeys == promise = "resolved" => DOMAIN data = Keys

(***************************************************************************)
(* The three timelines that went into the alignment, and the window the    *)
(* specification of the aligner describes.                                 *)
(***************************************************************************)
AllBuilt == Len(result) = 3 /\ \A i \in 1..3 : result[i].state = "fulfilled"

ThreeKeys == {result[i].key : i \in 1..Len(result)} = Keys

Built(k) == result[CHOOSE i \in 1..Len(result) : result[i].key = k].timeline

DatesOf(timeline) == [i \in 1..Len(timeline) |-> timeline[i].date]

\* Not empty, ascending, one point per consecutive day.
Daily(timeline) ==
  /\ timeline # <<>>
  /\ \A i \in 1..(Len(timeline) - 1) : timeline[i + 1].date = timeline[i].date + 1

DailyInputs == AllBuilt /\ ThreeKeys /\ \A k \in Keys : Daily(Built(k))

LatestFirst ==
  CHOOSE d \in {Built(k)[1].date : k \in Keys} :
    \A k \in Keys : Built(k)[1].date <= d

EarliestLast ==
  CHOOSE d \in {Built(k)[Len(Built(k))].date : k \in Keys} :
    \A k \in Keys : d <= Built(k)[Len(Built(k))].date

InWindow(point) == LatestFirst <= point.date /\ point.date <= EarliestLast

\* The Dataset has the three keys, equal lengths and equal dates.
DatasetAligned ==
  /\ DOMAIN data = Keys
  /\ \A k \in Keys : DatesOf(data[k]) = DatesOf(data["cases"])

(***************************************************************************)
(* C1: whenever fetchData resolves with a Dataset built from three         *)
(* non-empty, ascending, gap-free daily timelines, the three timelines of  *)
(* the Dataset have the same length and the same date at every index,      *)
(* whatever the first and last dates of the inputs are; so the 'lengths    *)
(* unequal' check of draw never fires on it.                               *)
(***************************************************************************)
C1_ResolvedDatasetAligned ==
  (promise = "resolved" /\ DailyInputs)
    => (DatasetAligned /\ mainPc # "lengths unequal")

(***************************************************************************)
(* C2: for three gap-free daily timelines whose ranges overlap, each       *)
(* timeline of the Dataset is exactly the points of its input whose date   *)
(* lies between the latest first date and the earliest last date, both     *)
(* inclusive.                                                              *)
(***************************************************************************)
C2_TruncatedToWindow ==
  (promise = "resolved" /\ DailyInputs /\ LatestFirst <= EarliestLast)
    => /\ DOMAIN data = Keys
       /\ \A k \in Keys : data[k] = SelectSeq(Built(k), InWindow)

(***************************************************************************)
(* C3: when the three series have no common date (the latest first date is *)
(* later than the earliest last date), fetchData never resolves with a     *)
(* Dataset.                                                                *)
(***************************************************************************)
C3_DisjointNeverResolves ==
  (DailyInputs /\ LatestFirst > EarliestLast) => promise # "resolved"

(***************************************************************************)
(* C7: alignment is idempotent.  Three timelines that are already aligned  *)
(* (same dates at every index) come out of the alignment unchanged, and    *)
(* aligning the timelines of a Dataset that fetchData produced again, at   *)
(* the same instant, gives the same Dataset.                               *)
(***************************************************************************)
InputsAligned == \A k \in Keys : DatesOf(Built(k)) = DatesOf(Built("cases"))

DataCsvs ==
  LET order == <<"cases", "recovered", "deaths">>
  IN [i \in 1..3 |-> [key |-> order[i], timeline |-> data[order[i]]]]

Realigned == AlignAll(DataCsvs, FirstDate(DataCsvs), LastDate(DataCsvs, now))

C7_AlignmentIdempotent ==
  /\ (promise = "resolved" /\ DailyInputs /\ InputsAligned)
       => (DOMAIN data = Keys /\ \A k \in Keys : data[k] = Built(k))
  /\ (promise = "resolved" /\ DailyInputs /\ DOMAIN data = Keys
        /\ \A k \in Keys : data[k] # <<>>)
       => Realigned = data

(***************************************************************************)
(* C8: the lastDate of the alignment is the earliest of the three series'  *)
(* last dates, at whatever instant the run takes place.                    *)
(***************************************************************************)
C8_LastDateIsEarliestLast ==
  (promise = "resolved" /\ DailyInputs) => lastDate = EarliestLast

(***************************************************************************)
(* The rows a series was built from: csvData without its header row.       *)
(***************************************************************************)
DataRows(i) == SubSeq(result[i].csvData, 2, Len(result[i].csvData))

\* The sum of orZero(value cell) over rows 1..j, as JavaScript adds.
RECURSIVE SumOrZero(_, _)
SumOrZero(rows, j) ==
  IF j = 0 THEN Num(0)
  ELSE JsAdd(SumOrZero(rows, j - 1), orZero(Cell(rows[j], 2)))

ValuesOf(timeline) == [j \in 1..Len(timeline) |-> timeline[j].value]

(***************************************************************************)
(* C9: the value at index i of the cases timeline is the sum of            *)
(* orZero(value cell) over the data rows 0..i, in row order; the value at  *)
(* index i of the recovered and of the deaths timeline is orZero of that   *)
(* row's own value cell.                                                   *)
(***************************************************************************)
C9_CasesRunningSum ==
  \A i \in 1..Len(result) :
    result[i].state = "fulfilled" =>
      /\ Len(result[i].timeline) = Len(DataRows(i))
      /\ \A j \in 1..Len(DataRows(i)) :
           result[i].timeline[j].value =
             IF result[i].key = "cases"
             THEN SumOrZero(DataRows(i), j)
             ELSE orZero(Cell(DataRows(i)[j], 2))

C9_Witness ==
  /\ AllBuilt
  /\ ValuesOf(Built("cases")) = <<Num(5), Num(8), Num(8), Num(15)>>
  /\ ValuesOf(Built("recovered")) = <<Num(5), Num(3), Num(0), Num(7)>>
  /\ ValuesOf(Built("deaths")) = <<Num(5), Num(3), Num(0), Num(7)>>

EveryRowHasValueCell ==
  \A i \in 1..Len(result) : \A j \in 1..Len(DataRows(i)) : Len(DataRows(i)[j]) >= 2

\* A minus sign followed by digits.
NegativeText(text) == text # <<>> /\ Head(text) = "-" /\ AllDigits(Tail(text))

NoNegativeText ==
  \A i \in 1..Len(result) : \A j \in 1..Len(DataRows(i)) :
    Len(DataRows(i)[j]) >= 2 => ~NegativeText(DataRows(i)[j][2])

AllValuesNonNegative ==
  \A k \in DOMAIN data : \A j \in 1..Len(data[k]) :
    data[k][j].value.t = "number" /\ data[k][j].value.n >= 0

(***************************************************************************)
(* C10, as claimed: every value of every timeline of a Dataset that        *)
(* fetchData returns is a non-negative number, whatever the texts of the   *)
(* value cells are.                                                        *)
(***************************************************************************)
C10_NonNegativeValues ==
  (promise = "resolved" /\ EveryRowHasValueCell) => AllValuesNonNegative

(***************************************************************************)
(* C10, amended: every value of every timeline of a Dataset that fetchData *)
(* returns is a non-negative number, provided no value cell is negative    *)
(* numeric text; text that is not numeric counts as 0.                     *)
(***************************************************************************)
C10_NonNegativeUnless ==
  (promise = "resolved" /\ EveryRowHasValueCell /\ NoNegativeText)
    => AllValuesNonNegative

\* A Dataset built from a marker cell ("<5"), with that row in it.
C10_Witness ==
  /\ promise = "resolved"
  /\ EveryRowHasValueCell
  /\ NoNegativeText
  /\ \E i \in 1..Len(result) : \E j \in 1..Len(DataRows(i)) :
       DataRows(i)[j][2] = <<"<", "5">>
  /\ DOMAIN data = Keys
  /\ \A k \in Keys : data[k] = Built(k)


(***************************************************************************)
(* Series that would align: the same number of rows, and at every row the  *)
(* date cells that parseTime can read are the same day.                    *)
(***************************************************************************)
DateCell(i, j) == parseTime(Cell(DataRows(i)[j], 1).s)

UnparseableDate(i, j) == DateCell(i, j).t = "null"

WouldAlign ==
  /\ AllBuilt /\ ThreeKeys
  /\ \A i \in 1..3 : Len(DataRows(i)) = Len(DataRows(1)) /\ DataRows(i) # <<>>
  /\ \A i \in 1..3 : \A h \in 1..3 : \A j \in 1..Len(DataRows(1)) :
       (~UnparseableDate(i, j) /\ ~UnparseableDate(h, j))
         => DateCell(i, j) = DateCell(h, j)

\* The clock is not before any date of the data.
ClockAfterData ==
  \A i \in 1..Len(result) : \A j \in 1..Len(result[i].timeline) :
    result[i].timeline[j].date <= now

EqualLengths ==
  DOMAIN data = Keys /\ \A k \in Keys : Len(data[k]) = Len(data["cases"])

(***************************************************************************)
(* C11: a row whose date cell cannot be parsed gets the epoch date, and    *)
(* the substitution never surfaces as an error: for three series that      *)
(* would otherwise align, with an unparseable date in any row of any       *)
(* series, fetchData resolves, the three timelines of the Dataset have     *)
(* equal lengths and draw does not abort with 'lengths unequal'.           *)
(***************************************************************************)
C11_BadDateNeverSurfaces ==
  /\ (WouldAlign /\ EndHandlerOver) => promise = "resolved"
  /\ (WouldAlign /\ promise = "resolved" /\ ClockAfterData)
       => (EqualLengths /\ mainPc # "lengths unequal")


(***************************************************************************)
(* What a text cell is worth: its number when it is numeric (digits, with  *)
(* or without a minus sign), 0 otherwise.                                  *)
(***************************************************************************)
NumberOrZero(text) ==
  IF AllDigits(text) THEN Num(DigitsVal(text))
  ELSE IF NegativeText(text) THEN Num(0 - DigitsVal(Tail(text)))
  ELSE Num(0)

\* The value cell of data row j of series i, and what the builder made of it
\* (for cases: of the first row, where the running sum is the value itself).
ValueText(i, j) == DataRows(i)[j][2]

(***************************************************************************)
(* C12: orZero maps a text cell to its numeric value when the text is      *)
(* numeric and to 0 otherwise: "<5" and every other text that is not a     *)
(* number give 0, "12" gives 12, and negative numeric text such as "-3"    *)
(* is passed through as -3.                                                *)
(***************************************************************************)
C12_OrZeroOnText ==
  \A i \in 1..Len(result) :
    (result[i].state = "fulfilled" /\ Len(DataRows(i)) = 1
       /\ Len(DataRows(i)[1]) = 2)
      => LET text == ValueText(i, 1)
             value == result[i].timeline[1].value
         IN /\ value = NumberOrZero(text)
            /\ text = <<"<", "5">> => value = Num(0)
            /\ text = <<"1", "2">> => value = Num(12)
            /\ text = <<"-", "3">> => value = Num(0 - 3)
            /\ (\E c \in 1..Len(text) : text[c] = "<") => value = Num(0)

C12_Witness ==
  /\ promise = "resolved"
  /\ DOMAIN data = Keys
  /\ \A i \in 1..3 : ValueText(i, 1) = <<"-", "3">>
  /\ \A k \in Keys : ValuesOf(data[k]) = <<Num(0 - 3)>>


(***************************************************************************)
(* C13, as claimed: for every RawRow sequence of length n that toCSV       *)
(* delivers for a recognised entry, the timeline built from it has length  *)
(* n - 1: the first row is dropped and every other row gives one           *)
(* TimePoint, in row order.                                                *)
(***************************************************************************)
InRowOrder(i) ==
  \A j \in 1..Len(result[i].timeline) :
    /\ j + 1 <= Len(result[i].csvData)
    /\ result[i].timeline[j].date = DateOrEpoch(Cell(result[i].csvData[j + 1], 1))

C13_TimelineOneShorter ==
  \A i \in 1..Len(result) :
    result[i].state = "fulfilled" =>
      (Len(result[i].timeline) = Len(result[i].csvData) - 1 /\ InRowOrder(i))

(***************************************************************************)
(* C13, amended: for every RawRow sequence of length n >= 1 the timeline   *)
(* has length n - 1, one TimePoint per row after the first, in row order;  *)
(* the empty RawRow sequence (an entry whose stream ends without data)     *)
(* gives the empty timeline.                                               *)
(***************************************************************************)
C13_TimelineOneShorterFromOne ==
  \A i \in 1..Len(result) :
    result[i].state = "fulfilled" =>
      /\ Len(result[i].csvData) >= 1
           => Len(result[i].timeline) = Len(result[i].csvData) - 1
      /\ result[i].csvData = <<>> => result[i].timeline = <<>>
      /\ InRowOrder(i)

C13_Witness ==
  /\ Len(result) = 3
  /\ result[1].state = "fulfilled"
  /\ Len(result[1].csvData) = 3
  /\ DatesOf(result[1].timeline) = <<DayTime(1), DayTime(2)>>


(***************************************************************************)
(* The full text of the stream behind result[i]: the chunks of the i-th    *)
(* recognised entry of the archive, put together.                          *)
(***************************************************************************)
EntryOf(i) ==
  CHOOSE e \in 1..Len(archive) :
    /\ KeyOf(archive[e].fileName) # "null"
    /\ Cardinality({h \in 1..e : KeyOf(archive[h].fileName) # "null"}) = i

RECURSIVE Concat(_)
Concat(chunks) == IF chunks = <<>> THEN <<>> ELSE Head(chunks) \o Concat(Tail(chunks))

Content(i) == Concat(archive[EntryOf(i)].chunks)

\* One row per line of the content (the text between newlines, the final
\* newline closing the last line), each row its cells between semicolons,
\* trimmed.
LinesOf(content) ==
  LET lines == Split(content, "\n")
  IN IF lines[Len(lines)] = <<>> THEN SubSeq(lines, 1, Len(lines) - 1) ELSE lines

RowsOfContent(content) ==
  LET lines == LinesOf(content)
  IN [l \in 1..Len(lines) |->
        LET cells == Split(lines[l], ";")
        IN [c \in 1..Len(cells) |-> Trim(cells[c])]]

(***************************************************************************)
(* C14: the RawRow sequence toCSV resolves with depends on the full text   *)
(* of the stream only, not on the 'data' chunks it arrives in: for every   *)
(* split of the content into one or more chunks it is one row per line of  *)
(* the content, in order, each row being the line's cells, trimmed.        *)
(***************************************************************************)
C14_RowsIndependentOfChunks ==
  \A i \in 1..Len(result) :
    (result[i].state = "fulfilled" /\ archive[EntryOf(i)].chunks # <<>>)
      => result[i].csvData = RowsOfContent(Content(i))


(***************************************************************************)
(* C15: rows of any shape are accepted and a value cell that cannot be     *)
(* read as a number counts as 0: a data row without a second cell          *)
(* contributes the number 0, so the value of its TimePoint and every later *)
(* running sum of the cases series are numbers.                            *)
(***************************************************************************)
C15_MissingCellCountsZero ==
  \A i \in 1..Len(result) :
    result[i].state = "fulfilled" =>
      /\ \A j \in 1..Len(result[i].timeline) :
           result[i].timeline[j].value.t = "number"
      /\ \A j \in 1..Len(DataRows(i)) :
           (Len(DataRows(i)[j]) < 2 /\ result[i].key # "cases")
             => result[i].timeline[j].value = Num(0)


(***************************************************************************)
(* C16: the alignment never mutates the timelines it is given: across the  *)
(* step of the 'end' handler that aligns and resolves, every timeline the  *)
(* series builders made keeps its elements in their order (the reverse     *)
(* scan works on a copy), while the Dataset holds the truncated arrays.    *)
(***************************************************************************)
C16_AlignmentKeepsInputs ==
  [][(endPc = "await" /\ endPc' = "returned")
       => \A i \in 1..Len(result) : result'[i].timeline = result[i].timeline]_vars

\* An alignment that cut a timeline of the Dataset shorter than its input,
\* with the inputs still as the builders made them.
C16_Witness ==
  /\ promise = "resolved"
  /\ AllBuilt /\ ThreeKeys
  /\ \A i \in 1..3 :
       /\ Len(result[i].timeline) >= 2
       /\ result[i].timeline = BuildTimeline(result[i].key, result[i].csvData)
  /\ DOMAIN data = Keys
  /\ \E k \in Keys : Len(data[k]) < Len(Built(k))


(***************************************************************************)
(* C17: for an archive whose three recognised entry streams all end        *)
(* without error, the promise of fetchData settles once the zip 'end'      *)
(* event has fired: when the 'end' handler has run as far as it ever will, *)
(* the promise is resolved or rejected, not pending; also when a series is *)
(* its header row only, so that its timeline is empty.                     *)
(***************************************************************************)
C17_EndedStreamsSettle ==
  (AllBuilt /\ EndHandlerOver) => promise \in {"resolved", "rejected"}

=============================================================================
